---- MODULE Spec2Model ----
(***************************************************************************)
(* Model of scrape-tubi.py: the per-country proxy retry loop of main(),    *)
(* the catalog fetch, the batched schedule fetch, the playlist and guide   *)
(* composers, URL cleaning and XMLTV time conversion.                      *)
(*                                                                         *)
(* Text is modelled as a sequence of one-character strings, so that        *)
(* parsing, decoding and formatting are computed character by character.   *)
(***************************************************************************)
EXTENDS Integers, Sequences, FiniteSets, TLC

VARIABLES
    pc,             \* position of the running function
    ci,             \* index into countries of the country being processed
    proxies,        \* main: proxies
    pi,             \* main: index into proxies of the next candidate
    retries,        \* main: retries
    data_fetched,   \* main: data_fetched
    json_data,      \* main: json_data
    channel_list,   \* main: channel_list
    epg_data,       \* main: epg_data
    group_mapping,  \* main: group_mapping
    m3u_playlist,   \* main: m3u_playlist, <<>> until composed, then one record of
                    \*   the document, the rows and the attempt it was composed from
    epg_tree,       \* main: epg_tree, likewise
    fe_channel_list,\* fetch_epg_data: channel_list argument
    fe_gi,          \* fetch_epg_data: index into grouped_ids of the next group
    fe_epg_data,    \* fetch_epg_data: epg_data accumulator
    fe_requests,    \* history: the schedule requests issued by this call
    files,          \* the files handed to save_file / save_epg_to_file, per country
    attempts,       \* history: calls of fetch_channel_list for the current country
    decoded,        \* history: the first of them that returned a decoded payload, or 0
    outcome,        \* history: per country, how its processing ended
    err,            \* the exception that left main(), "" while none has
    arg,            \* input of the function under test (pure-function runs)
    res             \* its result

vars == <<pc, ci, proxies, pi, retries, data_fetched, json_data, channel_list,
          epg_data, group_mapping, m3u_playlist, epg_tree, fe_channel_list,
          fe_gi, fe_epg_data, fe_requests, files, attempts, decoded, outcome,
          err, arg, res>>

mainVars == <<ci, proxies, pi, retries, data_fetched, json_data, channel_list,
              epg_data, group_mapping, m3u_playlist, epg_tree, files, attempts,
              decoded, outcome, err>>

feVars == <<fe_channel_list, fe_gi, fe_epg_data, fe_requests>>

----------------------------------------------------------------------------
(* Bounds of the model *)

MaxProxies == 12
MaxLen == 301
MaxRespRows == 2
MaxTail == 5
MaxRows == 3

(* Program constants *)

MAX_RETRIES == 10
group_size == 150

countries == <<"US", "GB">>

----------------------------------------------------------------------------
(* Generic helpers on sequences *)

Min(a, b) == IF a <= b THEN a ELSE b

Range(s) == {s[i] : i \in 1..Len(s)}

RECURSIVE Concat(_)
Concat(ss) == IF ss = <<>> THEN <<>> ELSE Head(ss) \o Concat(Tail(ss))

----------------------------------------------------------------------------
(* convert_to_xmltv_format: datetime.strptime(iso_time, "%Y-%m-%dT%H:%M:%SZ")    *)
(* followed by strftime("%Y%m%d%H%M%S +0000"); ValueError is the only exception   *)
(* the function catches.                                                          *)
(*                                                                                *)
(* A time value is [str |-> isinstance(value, str), s |-> its characters].        *)

Digits == {"0", "1", "2", "3", "4", "5", "6", "7", "8", "9"}

DigitVal(c) ==
    CASE c = "0" -> 0 [] c = "1" -> 1 [] c = "2" -> 2 [] c = "3" -> 3
      [] c = "4" -> 4 [] c = "5" -> 5 [] c = "6" -> 6 [] c = "7" -> 7
      [] c = "8" -> 8 [] c = "9" -> 9

DigitChar(n) ==
    CASE n = 0 -> "0" [] n = 1 -> "1" [] n = 2 -> "2" [] n = 3 -> "3"
      [] n = 4 -> "4" [] n = 5 -> "5" [] n = 6 -> "6" [] n = 7 -> "7"
      [] n = 8 -> "8" [] n = 9 -> "9"

RECURSIVE IntOf(_)
IntOf(ds) ==
    IF ds = <<>> THEN 0
    ELSE 10 * IntOf(SubSeq(ds, 1, Len(ds) - 1)) + DigitVal(ds[Len(ds)])

RECURSIVE IntToDigits(_)
IntToDigits(n) ==
    IF n < 10 THEN <<DigitChar(n)>>
    ELSE Append(IntToDigits(n \div 10), DigitChar(n % 10))

Pad2(n) == <<DigitChar(n \div 10), DigitChar(n % 10)>>

\* The end (exclusive) of the run of digits of s that starts at position i.
RECURSIVE DigitsEnd(_, _)
DigitsEnd(s, i) ==
    IF i <= Len(s) /\ s[i] \in Digits THEN DigitsEnd(s, i + 1) ELSE i

\* The directive patterns of _strptime.TimeRE, applied to a whole digit run:
\* each directive of the format is followed by a literal that is no digit, so
\* the alternative chosen must consume the run.
MatchY(r) == Len(r) = 4
MatchMonth(r) ==
    \/ Len(r) = 2 /\ r[1] = "1" /\ r[2] \in {"0", "1", "2"}
    \/ Len(r) = 2 /\ r[1] = "0" /\ r[2] # "0"
    \/ Len(r) = 1 /\ r[1] # "0"
MatchDay(r) ==
    \/ Len(r) = 2 /\ r[1] = "3" /\ r[2] \in {"0", "1"}
    \/ Len(r) = 2 /\ r[1] \in {"1", "2"}
    \/ Len(r) = 2 /\ r[1] = "0" /\ r[2] # "0"
    \/ Len(r) = 1 /\ r[1] # "0"
MatchHour(r) ==
    \/ Len(r) = 2 /\ r[1] = "2" /\ r[2] \in {"0", "1", "2", "3"}
    \/ Len(r) = 2 /\ r[1] \in {"0", "1"}
    \/ Len(r) = 1
MatchMinute(r) ==
    \/ Len(r) = 2 /\ r[1] \in {"0", "1", "2", "3", "4", "5"}
    \/ Len(r) = 1
MatchSecond(r) ==
    \/ Len(r) = 2 /\ r[1] = "6" /\ r[2] \in {"0", "1"}
    \/ Len(r) = 2 /\ r[1] \in {"0", "1", "2", "3", "4", "5"}
    \/ Len(r) = 1

IsLeap(y) == y % 4 = 0 /\ (y % 100 # 0 \/ y % 400 = 0)

DaysInMonth(y, m) ==
    IF m = 2 THEN (IF IsLeap(y) THEN 29 ELSE 28)
    ELSE IF m \in {4, 6, 9, 11} THEN 30 ELSE 31

\* The literal c of the format at position i of s (the regex is compiled
\* with IGNORECASE).
LitAt(s, i, c, lc) == i <= Len(s) /\ s[i] \in {c, lc}

NoMatch == [ok |-> FALSE, Y |-> 0, m |-> 0, d |-> 0, H |-> 0, M |-> 0, S |-> 0]

\* datetime.strptime(s, "%Y-%m-%dT%H:%M:%SZ"): ok is FALSE where it raises
\* ValueError (no match, unconverted data, or a date or second out of range).
Strptime(s) ==
    LET e1 == DigitsEnd(s, 1)
        rY == SubSeq(s, 1, e1 - 1)
        b2 == e1 + 1
        e2 == DigitsEnd(s, b2)
        rm == SubSeq(s, b2, e2 - 1)
        \* %d also accepts a blank followed by one digit
        b3 == IF e2 + 1 <= Len(s) /\ s[e2 + 1] = " " THEN e2 + 2 ELSE e2 + 1
        sp == b3 = e2 + 2
        e3 == DigitsEnd(s, b3)
        rd == SubSeq(s, b3, e3 - 1)
        b4 == e3 + 1
        e4 == DigitsEnd(s, b4)
        rH == SubSeq(s, b4, e4 - 1)
        b5 == e4 + 1
        e5 == DigitsEnd(s, b5)
        rM == SubSeq(s, b5, e5 - 1)
        b6 == e5 + 1
        e6 == DigitsEnd(s, b6)
        rS == SubSeq(s, b6, e6 - 1)
        matched ==
            /\ MatchY(rY) /\ LitAt(s, e1, "-", "-")
            /\ MatchMonth(rm) /\ LitAt(s, e2, "-", "-")
            /\ MatchDay(rd) /\ (sp => Len(rd) = 1)
            /\ LitAt(s, e3, "T", "t")
            /\ MatchHour(rH) /\ LitAt(s, e4, ":", ":")
            /\ MatchMinute(rM) /\ LitAt(s, e5, ":", ":")
            /\ MatchSecond(rS) /\ LitAt(s, e6, "Z", "z")
            /\ Len(s) = e6
    IN  IF ~matched THEN NoMatch
        ELSE LET y == IntOf(rY)   mo == IntOf(rm)   d == IntOf(rd)
                 sec == IntOf(rS)
             IN  IF y < 1 \/ d > DaysInMonth(y, mo) \/ sec > 59 THEN NoMatch
                 ELSE [ok |-> TRUE, Y |-> y, m |-> mo, d |-> d,
                       H |-> IntOf(rH), M |-> IntOf(rM), S |-> sec]

\* dt.strftime("%Y%m%d%H%M%S +0000"); the C library's %Y does not pad the year.
Strftime(dt) ==
    IntToDigits(dt.Y) \o Pad2(dt.m) \o Pad2(dt.d) \o Pad2(dt.H) \o Pad2(dt.M)
        \o Pad2(dt.S) \o <<" ", "+", "0", "0", "0", "0">>

TStr(s) == [str |-> TRUE, s |-> s]
TNull == [str |-> FALSE, s |-> <<>>]

\* [raised |-> an exception leaves the function, value |-> the value returned]
convert_to_xmltv_format(iso_time) ==
    IF ~iso_time.str
    THEN [raised |-> TRUE, value |-> iso_time]          \* TypeError, not caught
    ELSE LET dt == Strptime(iso_time.s)
         IN  IF dt.ok THEN [raised |-> FALSE, value |-> TStr(Strftime(dt))]
             ELSE [raised |-> FALSE, value |-> iso_time]   \* except ValueError

----------------------------------------------------------------------------
(* urllib.parse.unquote, urlparse and urlunparse, as clean_stream_url and   *)
(* create_m3u_playlist use them.                                            *)

Letters == {"a", "b", "h", "p", "t", "x", "A", "B", "H", "P", "T", "R", "S", "U"}

LowerChar(c) ==
    CASE c = "A" -> "a" [] c = "B" -> "b" [] c = "H" -> "h" [] c = "P" -> "p"
      [] c = "T" -> "t" [] c = "R" -> "r" [] c = "S" -> "s" [] c = "U" -> "u"
      [] OTHER -> c

Lower(s) == [i \in 1..Len(s) |-> LowerChar(s[i])]

HexDigits == Digits \cup {"a", "b", "c", "d", "e", "f", "A", "B", "C", "D", "E", "F"}

\* bytes.fromhex(a + b).decode("utf-8"), for the escapes the model's URLs hold
HexToChar(a, b) ==
    CASE a = "2" /\ b = "2" -> "\""
      [] a = "2" /\ b = "3" -> "#"
      [] a = "2" /\ b = "5" -> "%"
      [] a = "2" /\ b = "F" -> "/"
      [] a = "3" /\ b = "2" -> "2"
      [] a = "3" /\ b = "3" -> "3"
      [] a = "3" /\ b = "5" -> "5"
      [] a = "3" /\ b = "A" -> ":"
      [] a = "3" /\ b = "B" -> ";"
      [] a = "3" /\ b = "F" -> "?"
      [] a = "5" /\ b = "2" -> "R"
      [] a = "5" /\ b = "3" -> "S"
      [] a = "5" /\ b = "5" -> "U"

\* unquote(string): one pass, each %xx whose xx are hex digits is replaced
RECURSIVE UnquoteFrom(_, _)
UnquoteFrom(s, i) ==
    IF i > Len(s) THEN <<>>
    ELSE IF /\ s[i] = "%" /\ i + 2 <= Len(s)
            /\ s[i + 1] \in HexDigits /\ s[i + 2] \in HexDigits
         THEN <<HexToChar(s[i + 1], s[i + 2])>> \o UnquoteFrom(s, i + 3)
         ELSE <<s[i]>> \o UnquoteFrom(s, i + 1)

unquote(s) == UnquoteFrom(s, 1)

\* s.find(c, start) with positions counted from 1; 0 when c is not found
RECURSIVE Find(_, _, _)
Find(s, c, start) ==
    IF start > Len(s) THEN 0
    ELSE IF s[start] = c THEN start ELSE Find(s, c, start + 1)

\* s.rfind(c), positions counted from 1; 0 when c is not found
RECURSIVE RFindFrom(_, _, _)
RFindFrom(s, c, i) ==
    IF i < 1 THEN 0 ELSE IF s[i] = c THEN i ELSE RFindFrom(s, c, i - 1)

RFind(s, c) == RFindFrom(s, c, Len(s))

From(s, i) == SubSeq(s, i, Len(s))

scheme_chars == Letters \cup Digits \cup {"+", "-", "."}

S_http == <<"h", "t", "t", "p">>

uses_netloc == {<<>>, S_http}
uses_params == {<<>>, S_http}

\* the end of the network location: the earliest of / ? # from position start
SplitNetlocEnd(url, start) ==
    LET ds == {Find(url, c, start) : c \in {"/", "?", "#"}} \ {0}
    IN  IF ds = {} THEN Len(url) + 1
        ELSE CHOOSE d \in ds : \A e \in ds : d <= e

\* the position of the : that ends the scheme of url0, 0 when it has none
SchemeEnd(url0) ==
    LET i == Find(url0, ":", 1)
    IN  IF /\ i > 1
           /\ url0[1] \in Letters
           /\ \A k \in 1..(i - 1) : url0[k] \in scheme_chars
        THEN i ELSE 0

\* url3 is what is left of the URL behind the network location and before #
SplitQuery(scheme, netloc, url3, fragment, q) ==
    [scheme |-> scheme, netloc |-> netloc,
     path |-> IF q > 0 THEN SubSeq(url3, 1, q - 1) ELSE url3,
     query |-> IF q > 0 THEN From(url3, q + 1) ELSE <<>>,
     fragment |-> fragment]

SplitFragment(scheme, netloc, url2, f) ==
    SplitQuery(scheme, netloc,
               IF f > 0 THEN SubSeq(url2, 1, f - 1) ELSE url2,
               IF f > 0 THEN From(url2, f + 1) ELSE <<>>,
               Find(IF f > 0 THEN SubSeq(url2, 1, f - 1) ELSE url2, "?", 1))

\* url1 is the URL behind its scheme; delim is where its network location ends
SplitNetloc(scheme, url1, delim) ==
    IF Len(url1) >= 2 /\ url1[1] = "/" /\ url1[2] = "/"
    THEN SplitFragment(scheme, SubSeq(url1, 3, delim - 1), From(url1, delim),
                       Find(From(url1, delim), "#", 1))
    ELSE SplitFragment(scheme, <<>>, url1, Find(url1, "#", 1))

SplitScheme(url0, i) ==
    IF i > 0
    THEN SplitNetloc(Lower(SubSeq(url0, 1, i - 1)), From(url0, i + 1),
                     SplitNetlocEnd(From(url0, i + 1), 3))
    ELSE SplitNetloc(<<>>, url0, SplitNetlocEnd(url0, 3))

urlsplit(url0) == SplitScheme(url0, SchemeEnd(url0))

\* _splitparams: the position of the ; that starts the params, 0 for none
SplitParamsAt(url) ==
    LET r == RFind(url, "/")
    IN  IF r > 0 THEN Find(url, ";", r) ELSE Find(url, ";", 1)

\* sp is the result of urlsplit, i the position of the ; that starts the params
WithParams(sp, i) ==
    [scheme |-> sp.scheme, netloc |-> sp.netloc,
     path |-> IF i > 0 THEN SubSeq(sp.path, 1, i - 1) ELSE sp.path,
     params |-> IF i > 0 THEN From(sp.path, i + 1) ELSE <<>>,
     query |-> sp.query, fragment |-> sp.fragment]

ParamsOf(sp) ==
    WithParams(sp, IF sp.scheme \in uses_params THEN SplitParamsAt(sp.path) ELSE 0)

urlparse(url) == ParamsOf(urlsplit(url))

\* url is what urlunsplit has put together of the network location and the path
AddRest(scheme, url, query, fragment) ==
    (IF scheme # <<>> THEN scheme \o <<":">> ELSE <<>>)
        \o url
        \o (IF query # <<>> THEN <<"?">> \o query ELSE <<>>)
        \o (IF fragment # <<>> THEN <<"#">> \o fragment ELSE <<>>)

urlunsplit(scheme, netloc, url, query, fragment) ==
    AddRest(scheme,
            IF \/ netloc # <<>>
               \/ /\ scheme # <<>>
                  /\ scheme \in uses_netloc
                  /\ SubSeq(url, 1, Min(2, Len(url))) # <<"/", "/">>
            THEN <<"/", "/">> \o netloc
                   \o (IF url # <<>> /\ url[1] # "/" THEN <<"/">> ELSE <<>>)
                   \o url
            ELSE url,
            query, fragment)

urlunparse(scheme, netloc, url, params, query, fragment) ==
    urlunsplit(scheme, netloc,
               IF params # <<>> THEN url \o <<";">> \o params ELSE url,
               query, fragment)

\* urlunparse((scheme, netloc, path, '', query, ''))
UnparseWithQuery(parsed_url) ==
    urlunparse(parsed_url.scheme, parsed_url.netloc, parsed_url.path,
               <<>>, parsed_url.query, <<>>)

\* urlunparse((parsed_url.scheme, parsed_url.netloc, parsed_url.path, '', '', ''))
UnparseClean(parsed_url) ==
    urlunparse(parsed_url.scheme, parsed_url.netloc, parsed_url.path,
               <<>>, <<>>, <<>>)

KeepQuery_clean_stream_url(url) == UnparseWithQuery(urlparse(url))

clean_stream_url(url) == UnparseClean(urlparse(url))

----------------------------------------------------------------------------
(* Schedule rows and the two composers.                                     *)
(*                                                                          *)
(* A schedule row is [content_id, title, video, programs]: video is the     *)
(* list of manifest URLs of video_resources, programs the list of           *)
(* [start_time, end_time] of the row's programs.                            *)

Ord(c) ==
    CASE c = "A" -> 65 [] c = "B" -> 66 [] c = "H" -> 72 [] c = "P" -> 80
      [] c = "R" -> 82 [] c = "S" -> 83 [] c = "T" -> 84 [] c = "U" -> 85
      [] c = "a" -> 97 [] c = "b" -> 98 [] c = "h" -> 104 [] c = "p" -> 112
      [] c = "r" -> 114 [] c = "s" -> 115 [] c = "t" -> 116 [] c = "u" -> 117
      [] c = "x" -> 120

\* a < b for Python strings: the first differing character decides
RECURSIVE StrLess(_, _)
StrLess(a, b) ==
    IF b = <<>> THEN FALSE
    ELSE IF a = <<>> THEN TRUE
    ELSE IF a[1] # b[1] THEN Ord(a[1]) < Ord(b[1])
    ELSE StrLess(Tail(a), Tail(b))

\* key=lambda x: x.get('title', '').lower()
title_key(x) == Lower(x.title)

\* x put into the sorted list s behind every element whose key is not greater
RECURSIVE InsertSorted(_, _)
InsertSorted(s, x) ==
    IF s = <<>> THEN <<x>>
    ELSE IF StrLess(title_key(x), title_key(s[1])) THEN <<x>> \o s
    ELSE <<s[1]>> \o InsertSorted(Tail(s), x)

\* sorted(epg_data, key=...): a stable sort
RECURSIVE sorted(_)
sorted(rows) ==
    IF rows = <<>> THEN <<>>
    ELSE InsertSorted(sorted(SubSeq(rows, 1, Len(rows) - 1)), rows[Len(rows)])

\* group_mapping.get(tvg_id, 'Other')
GroupOf(gm, id) == IF id \in DOMAIN gm THEN gm[id] ELSE "Other"

\* the stream_url and clean_url of one row
CleanUrlOf(elem) ==
    clean_stream_url(IF elem.video # <<>> THEN unquote(elem.video[1]) ELSE <<>>)

Entry(elem, gm, clean_url) ==
    [tvg_id |-> elem.content_id, group_title |-> GroupOf(gm, elem.content_id),
     channel_name |-> elem.title, url |-> clean_url]

\* the loop of create_m3u_playlist over rows i.. of the sorted list
RECURSIVE PlaylistFrom(_, _, _, _)

\* its body for row i, whose clean_url is given
PlaylistStep(srt, i, gm, seen_urls, clean_url) ==
    IF clean_url # <<>> /\ clean_url \notin seen_urls
    THEN <<Entry(srt[i], gm, clean_url)>>
           \o PlaylistFrom(srt, i + 1, gm, seen_urls \cup {clean_url})
    ELSE PlaylistFrom(srt, i + 1, gm, seen_urls)

PlaylistFrom(srt, i, gm, seen_urls) ==
    IF i > Len(srt) THEN <<>>
    ELSE PlaylistStep(srt, i, gm, seen_urls, CleanUrlOf(srt[i]))

\* every row with a clean_url, in sorted order
RECURSIVE AllEntries(_, _)
AllEntries(srt, gm) ==
    IF srt = <<>> THEN <<>>
    ELSE PlaylistStep(<<srt[1]>>, 1, gm, {}, CleanUrlOf(srt[1]))
           \o AllEntries(Tail(srt), gm)

NoDedup_create_m3u_playlist(rows, gm, country) ==
    [country |-> country, entries |-> AllEntries(sorted(rows), gm)]

create_m3u_playlist(rows, gm, country) ==
    [country |-> country, entries |-> PlaylistFrom(sorted(rows), 1, gm, {})]

\* the nodes create_epg_xml adds for one station
StationNodes(station) ==
    <<[tag |-> "channel", id |-> station.content_id, text |-> station.title,
       start |-> TStr(<<>>), stop |-> TStr(<<>>)]>>
    \o [k \in 1..Len(station.programs) |->
          [tag |-> "programme", id |-> station.content_id, text |-> <<>>,
           start |-> convert_to_xmltv_format(station.programs[k].start_time).value,
           stop |-> convert_to_xmltv_format(station.programs[k].end_time).value]]

StationRaises(station) ==
    \E k \in 1..Len(station.programs) :
        \/ convert_to_xmltv_format(station.programs[k].start_time).raised
        \/ convert_to_xmltv_format(station.programs[k].end_time).raised

\* [raised |-> an exception leaves create_epg_xml, tree |-> the nodes under <tv>]
create_epg_xml(rows) ==
    IF \E i \in 1..Len(rows) : StationRaises(rows[i])
    THEN [raised |-> TRUE, tree |-> <<>>]
    ELSE [raised |-> FALSE,
          tree |-> Concat([i \in 1..Len(rows) |-> StationNodes(rows[i])])]

----------------------------------------------------------------------------
(* The catalog payload and what is derived from it.                         *)
(*                                                                          *)
(* json_data is [dict, size, cats]: dict is FALSE for the [] that           *)
(* fetch_channel_list returns on failure; size is the number of keys of the *)
(* decoded object; cats lists the categories of epg.contentIdsByContainer,  *)
(* container by container, each [name, contents].                           *)

EmptyList == [dict |-> FALSE, size |-> 0, cats |-> <<>>]

Payloads ==
    { [dict |-> TRUE, size |-> 0, cats |-> <<>>],
      [dict |-> TRUE, size |-> 1, cats |-> <<>>],
      [dict |-> TRUE, size |-> 1,
       cats |-> <<[name |-> "News", contents |-> <<>>]>>],
      [dict |-> TRUE, size |-> 1,
       cats |-> <<[name |-> "News", contents |-> <<1, 2>>],
                  [name |-> "Kids", contents |-> <<2>>]>>] }

\* bool(json_data)
Truthy(j) == j.dict /\ j.size > 0

extract_channel_list(j) ==
    Concat([i \in 1..Len(j.cats) |-> j.cats[i].contents])

RECURSIVE GroupMappingFrom(_, _)
GroupMappingFrom(cats, gm) ==
    IF cats = <<>> THEN gm
    ELSE LET ids == Range(cats[1].contents)
         IN  GroupMappingFrom(Tail(cats),
                 [id \in DOMAIN gm \cup ids |->
                     IF id \in ids THEN cats[1].name ELSE gm[id]])

create_group_mapping(j) == GroupMappingFrom(j.cats, [id \in {} |-> "Other"])

----------------------------------------------------------------------------
(* fetch_epg_data *)

HTTP_H == <<"h", "t", "t", "p", ":", "/", "/", "h">>

ISO_TIME == <<"2", "0", "2", "4", "-", "1", "0", "-", "0", "8", "T",
              "0", "1", ":", "0", "0", ":", "0", "0", "Z">>

\* The row the schedule service returns for a channel: ids 2k-1 and 2k share
\* the path of their manifest URL and differ in its query string.
RowFor(id, null_time) ==
    [content_id |-> id,
     title |-> IF id % 2 = 1 THEN <<"b">> ELSE <<"A">>,
     video |-> <<HTTP_H \o <<"/", DigitChar(((id + 1) \div 2) % 10), "?",
                             DigitChar(id % 10)>>>>,
     programs |-> <<[start_time |-> IF null_time THEN TNull ELSE TStr(ISO_TIME),
                     end_time |-> TStr(<<>>)]>>]

\* What one schedule request can end in: a 200 response whose JSON holds rows,
\* rows with a null start_time, or no rows; a status other than 200; a body
\* that is no JSON; a transport error.
Responses == {"rows", "nulltime", "norows", "status", "badjson", "transport"}

\* epg_json.get('rows', []) of the response to the request for group
RespRows(group, r) ==
    IF r \in {"rows", "nulltime"}
    THEN [i \in 1..Min(Len(group), MaxRespRows) |-> RowFor(group[i], r = "nulltime")]
    ELSE <<>>

DropTail_grouped_ids(list) ==
    [k \in 1..(Len(list) \div group_size) |->
        SubSeq(list, (k - 1) * group_size + 1, k * group_size)]

\* [channel_list[i:i + group_size] for i in range(0, len(channel_list), group_size)]
grouped_ids(list) ==
    [k \in 1..((Len(list) + group_size - 1) \div group_size) |->
        SubSeq(list, (k - 1) * group_size + 1, Min(k * group_size, Len(list)))]

\* one iteration of `for group in grouped_ids`
FetchEpgBatch ==
    /\ pc = "fetch_epg"
    /\ fe_gi <= Len(grouped_ids(fe_channel_list))
    /\ \E r \in Responses :
         LET group == grouped_ids(fe_channel_list)[fe_gi]
             rows == RespRows(group, r)
         IN  /\ fe_epg_data' = fe_epg_data \o rows
             /\ fe_requests' = Append(fe_requests,
                                      [ids |-> group, resp |-> r, rows |-> rows])
    /\ fe_gi' = fe_gi + 1
    /\ UNCHANGED <<pc, fe_channel_list, mainVars, arg, res>>

\* `return epg_data`, the function called on its own
FetchEpgReturn ==
    /\ pc = "fetch_epg"
    /\ fe_gi > Len(grouped_ids(fe_channel_list))
    /\ pc' = "epg_returned"
    /\ res' = fe_epg_data
    /\ UNCHANGED <<feVars, mainVars, arg>>

----------------------------------------------------------------------------
(* main *)

NoMapping == [id \in {} |-> "Other"]

NoFiles == [m3u |-> <<>>, epg |-> <<>>]

CountryIds == 1..Len(countries)

NextCountryPc(c) == IF c > Len(countries) THEN "done" ELSE "country"

\* What the request to the proxy directory can end in
ProxyReplies == {[kind |-> "transport", n |-> 0], [kind |-> "status", n |-> 0]}
                    \cup {[kind |-> "ok", n |-> n] : n \in 0..MaxProxies}

\* [raised |-> an exception leaves get_proxies, list |-> the list returned]
get_proxies(r) ==
    IF r.kind = "transport" THEN [raised |-> TRUE, list |-> <<>>]
    ELSE IF r.kind = "ok" THEN [raised |-> FALSE, list |-> [i \in 1..r.n |-> i]]
    ELSE [raised |-> FALSE, list |-> <<>>]

\* What one request for the catalog page can end in
FetchFailures == {"ssl", "connection", "timeout", "status", "noscript", "decode"}

FetchOutcomes == [kind : FetchFailures, data : {EmptyList}]
                    \cup [kind : {"payload"}, data : Payloads]

\* [raised |-> an exception leaves fetch_channel_list, data |-> the value returned]
fetch_channel_list(r) ==
    IF r.kind = "decode"
    THEN [raised |-> TRUE, data |-> EmptyList]      \* json.JSONDecodeError, not caught
    ELSE IF r.kind = "payload" THEN [raised |-> FALSE, data |-> r.data]
    ELSE [raised |-> FALSE, data |-> EmptyList]

Stale_StartCountry ==
    UNCHANGED <<data_fetched, retries>>

\* data_fetched = False; retries = 0
StartCountry ==
    /\ data_fetched' = FALSE
    /\ retries' = 0

Always_EpgUsable(rows) == TRUE

\* the negation of `if not epg_data`
EpgUsable(rows) == rows # <<>>

\* `for country in countries` down to the head of the proxy loop
GetProxies ==
    /\ pc = "country"
    /\ \E r \in ProxyReplies :
         LET got == get_proxies(r)
         IN  IF got.raised
             THEN /\ pc' = "crashed"
                  /\ err' = "get_proxies"
                  /\ UNCHANGED <<ci, proxies, pi, retries, data_fetched, outcome,
                                 attempts, decoded>>
             ELSE /\ proxies' = got.list
                  /\ attempts' = 0
                  /\ decoded' = 0
                  /\ err' = err
                  /\ IF got.list = <<>>
                     THEN /\ outcome' = [outcome EXCEPT ![ci] = "no_proxies"]
                          /\ ci' = ci + 1
                          /\ pc' = NextCountryPc(ci + 1)
                          /\ UNCHANGED <<pi, retries, data_fetched>>
                     ELSE /\ StartCountry
                          /\ pi' = 1
                          /\ pc' = "proxy"
                          /\ UNCHANGED <<ci, outcome>>
    /\ UNCHANGED <<json_data, channel_list, epg_data, group_mapping, m3u_playlist,
                   epg_tree, files, feVars, arg, res>>

\* one pass of `for proxy in proxies` up to the call of fetch_epg_data
TryProxy ==
    /\ pc = "proxy"
    /\ pi <= Len(proxies)
    /\ retries < MAX_RETRIES
    /\ attempts' = attempts + 1
    /\ \E r \in FetchOutcomes :
         LET got == fetch_channel_list(r)
             list == extract_channel_list(got.data)
         IN  IF got.raised
             THEN /\ pc' = "crashed"
                  /\ err' = "fetch_channel_list"
                  /\ UNCHANGED <<pi, retries, json_data, channel_list, decoded, feVars>>
             ELSE /\ json_data' = got.data
                  /\ err' = err
                  /\ decoded' = IF got.data.dict /\ decoded = 0
                                THEN attempts + 1 ELSE decoded
                  /\ IF ~Truthy(got.data)
                     THEN /\ retries' = retries + 1
                          /\ pi' = pi + 1
                          /\ pc' = "proxy"
                          /\ UNCHANGED <<channel_list, feVars>>
                     ELSE /\ channel_list' = list
                          /\ retries' = retries
                          /\ IF list = <<>>
                             THEN /\ pi' = pi + 1
                                  /\ pc' = "proxy"
                                  /\ UNCHANGED feVars
                             ELSE /\ pi' = pi
                                  /\ pc' = "fetch_epg"
                                  /\ fe_channel_list' = list
                                  /\ fe_gi' = 1
                                  /\ fe_epg_data' = <<>>
                                  /\ fe_requests' = <<>>
    /\ UNCHANGED <<ci, proxies, data_fetched, epg_data, group_mapping, m3u_playlist,
                   epg_tree, files, outcome, arg, res>>

\* the proxy loop ends without a break after success: the candidates are used
\* up or the retry limit is reached
LoopExit ==
    /\ pc = "proxy"
    /\ pi > Len(proxies) \/ retries >= MAX_RETRIES
    /\ outcome' = [outcome EXCEPT ![ci] = IF data_fetched THEN "ok" ELSE "failed"]
    /\ ci' = ci + 1
    /\ pc' = NextCountryPc(ci + 1)
    /\ UNCHANGED <<proxies, pi, retries, data_fetched, json_data, channel_list,
                   epg_data, group_mapping, m3u_playlist, epg_tree, files,
                   attempts, decoded, err, feVars, arg, res>>

\* fetch_epg_data returns into main
AfterEpg ==
    /\ pc = "fetch_epg"
    /\ fe_gi > Len(grouped_ids(fe_channel_list))
    /\ epg_data' = fe_epg_data
    /\ fe_channel_list' = <<>>
    /\ fe_gi' = 1
    /\ fe_epg_data' = <<>>
    /\ fe_requests' = <<>>
    /\ IF ~EpgUsable(fe_epg_data)
       THEN /\ retries' = retries + 1
            /\ pi' = pi + 1
            /\ pc' = "proxy"
            /\ UNCHANGED group_mapping
       ELSE /\ group_mapping' = create_group_mapping(json_data)
            /\ pc' = "create_m3u"
            /\ UNCHANGED <<retries, pi>>
    /\ UNCHANGED <<ci, proxies, data_fetched, json_data, channel_list, m3u_playlist,
                   epg_tree, files, attempts, decoded, outcome, err, arg, res>>

CreateM3u ==
    /\ pc = "create_m3u"
    /\ m3u_playlist' = <<[doc |-> create_m3u_playlist(epg_data, group_mapping, ci),
                          rows |-> epg_data, attempt |-> attempts]>>
    /\ pc' = "create_epg"
    /\ UNCHANGED <<ci, proxies, pi, retries, data_fetched, json_data, channel_list,
                   epg_data, group_mapping, epg_tree, files, attempts, decoded,
                   outcome, err, feVars, arg, res>>

CreateEpg ==
    /\ pc = "create_epg"
    /\ LET got == create_epg_xml(epg_data)
       IN  IF got.raised
           THEN /\ pc' = "crashed"
                /\ err' = "create_epg_xml"
                /\ UNCHANGED epg_tree
           ELSE /\ epg_tree' = <<[doc |-> got.tree, rows |-> epg_data,
                                   attempt |-> attempts]>>
                /\ pc' = "save_m3u"
                /\ err' = err
    /\ UNCHANGED <<ci, proxies, pi, retries, data_fetched, json_data, channel_list,
                   epg_data, group_mapping, m3u_playlist, files, attempts, decoded,
                   outcome, feVars, arg, res>>

\* save_file(m3u_playlist, ...)
SaveM3u ==
    /\ pc = "save_m3u"
    /\ files' = [files EXCEPT ![ci].m3u = m3u_playlist]
    /\ pc' = "save_epg"
    /\ UNCHANGED <<ci, proxies, pi, retries, data_fetched, json_data, channel_list,
                   epg_data, group_mapping, m3u_playlist, epg_tree, attempts,
                   decoded, outcome, err, feVars, arg, res>>

\* save_epg_to_file(epg_tree, ...); data_fetched = True; break
SaveEpg ==
    /\ pc = "save_epg"
    /\ files' = [files EXCEPT ![ci].epg = epg_tree]
    /\ data_fetched' = TRUE
    /\ outcome' = [outcome EXCEPT ![ci] = "ok"]
    /\ ci' = ci + 1
    /\ pc' = NextCountryPc(ci + 1)
    /\ UNCHANGED <<proxies, pi, retries, json_data, channel_list, epg_data,
                   group_mapping, m3u_playlist, epg_tree, attempts, decoded, err,
                   feVars, arg, res>>

Init ==
    /\ pc = NextCountryPc(1)
    /\ ci = 1
    /\ proxies = <<>>
    /\ pi = 1
    /\ retries = 0
    /\ data_fetched = FALSE
    /\ json_data = EmptyList
    /\ channel_list = <<>>
    /\ epg_data = <<>>
    /\ group_mapping = NoMapping
    /\ m3u_playlist = <<>>
    /\ epg_tree = <<>>
    /\ fe_channel_list = <<>>
    /\ fe_gi = 1
    /\ fe_epg_data = <<>>
    /\ fe_requests = <<>>
    /\ files = [c \in CountryIds |-> NoFiles]
    /\ attempts = 0
    /\ decoded = 0
    /\ outcome = [c \in CountryIds |-> ""]
    /\ err = ""
    /\ arg = <<>>
    /\ res = <<>>

Next ==
    \/ GetProxies
    \/ TryProxy
    \/ FetchEpgBatch
    \/ AfterEpg
    \/ CreateM3u
    \/ CreateEpg
    \/ SaveM3u
    \/ SaveEpg
    \/ LoopExit

Spec == Init /\ [][Next]_vars

----------------------------------------------------------------------------
(* fetch_epg_data called on its own, on channel lists of every length *)

InitPure ==
    /\ ci = 1
    /\ proxies = <<>>
    /\ pi = 1
    /\ retries = 0
    /\ data_fetched = FALSE
    /\ json_data = EmptyList
    /\ channel_list = <<>>
    /\ epg_data = <<>>
    /\ group_mapping = NoMapping
    /\ m3u_playlist = <<>>
    /\ epg_tree = <<>>
    /\ files = [c \in CountryIds |-> NoFiles]
    /\ attempts = 0
    /\ decoded = 0
    /\ outcome = [c \in CountryIds |-> ""]
    /\ err = ""

InitEpg ==
    /\ InitPure
    /\ pc = "fetch_epg"
    /\ fe_channel_list \in {[i \in 1..L |-> i] : L \in 0..MaxLen}
    /\ fe_gi = 1
    /\ fe_epg_data = <<>>
    /\ fe_requests = <<>>
    /\ arg = <<>>
    /\ res = <<>>

NextEpg == FetchEpgBatch \/ FetchEpgReturn

SpecEpg == InitEpg /\ [][NextEpg]_vars

----------------------------------------------------------------------------
(* create_m3u_playlist called on its own *)

Titles == {<<"a">>, <<"B">>, <<"b">>}

\* manifest URLs: two that clean to http://h/2, one that cleans to http://h/5,
\* one that cleans to the empty string; <<>> is a row without video_resources
Videos ==
    { <<>>,
      <<HTTP_H \o <<"/", "2", "?", "5">>>>,
      <<HTTP_H \o <<"/", "%", "3", "2">>>>,
      <<HTTP_H \o <<"/", "5", "#", "3">>>>,
      <<<<"?", "5">>>> }

RowsOfLen(n) ==
    { [i \in 1..n |-> [content_id |-> i, title |-> f[i][1], video |-> f[i][2],
                       programs |-> <<>>]] :
        f \in [1..n -> Titles \X Videos] }

SampleMapping == [id \in {1} |-> "News"]

InitM3u ==
    /\ InitPure
    /\ pc = "m3u_call"
    /\ arg \in UNION {RowsOfLen(n) : n \in 0..MaxRows}
    /\ res = <<>>
    /\ fe_channel_list = <<>>
    /\ fe_gi = 1
    /\ fe_epg_data = <<>>
    /\ fe_requests = <<>>

CallCreateM3u ==
    /\ pc = "m3u_call"
    /\ res' = create_m3u_playlist(arg, SampleMapping, 1)
    /\ pc' = "m3u_done"
    /\ UNCHANGED <<mainVars, feVars, arg>>

NextM3u == CallCreateM3u

SpecM3u == InitM3u /\ [][NextM3u]_vars

----------------------------------------------------------------------------
(* The cleaned stream URL of create_m3u_playlist, computed on its own *)

UrlChars == {"/", "?", "#", ";", "%", "2", "3", "5"}

UrlPrefixes == {<<>>, S_http \o <<":">>, HTTP_H}

Urls ==
    { p \o t : p \in UrlPrefixes,
               t \in UNION {[1..n -> UrlChars] : n \in 0..MaxTail} }

InitUrl ==
    /\ InitPure
    /\ pc = "url_call"
    /\ arg \in Urls
    /\ res = <<>>
    /\ fe_channel_list = <<>>
    /\ fe_gi = 1
    /\ fe_epg_data = <<>>
    /\ fe_requests = <<>>

\* clean_url = clean_stream_url(unquote(manifest url))
CallCleanUrl ==
    /\ pc = "url_call"
    /\ res' = clean_stream_url(unquote(arg))
    /\ pc' = "url_done"
    /\ UNCHANGED <<mainVars, feVars, arg>>

NextUrl == CallCleanUrl

SpecUrl == InitUrl /\ [][NextUrl]_vars

----------------------------------------------------------------------------
(* convert_to_xmltv_format called on its own *)

Sep(a, b) == {<<a>>, <<b>>}

TimeStrings ==
    { y \o d1 \o m \o <<"-">> \o d \o t \o h \o <<":">> \o mi \o <<":">> \o sec \o z :
        y \in {<<"2", "0", "2", "4">>, <<"2", "0", "2", "3">>, <<"0", "9", "9", "9">>,
               <<"0", "0", "0", "0">>, <<"9", "9", "9">>},
        d1 \in Sep("-", "x"),
        m \in {<<"1", "0">>, <<"0", "2">>, <<"2">>, <<"1", "3">>},
        d \in {<<"0", "8">>, <<"8">>, <<" ", "8">>, <<"2", "9">>, <<"3", "1">>, <<"3", "2">>},
        t \in Sep("T", "t"),
        h \in {<<"0", "1">>, <<"1">>, <<"2", "4">>},
        mi \in {<<"0", "0">>, <<"6", "0">>},
        sec \in {<<"0", "0">>, <<"5">>, <<"6", "0">>},
        z \in {<<"Z">>, <<>>, <<"Z", "x">>} }
    \cup {<<>>, <<"x", "x">>, ISO_TIME}

\* the values program.get("start_time", "") can hand over: a JSON string, or a
\* JSON value that is no string
TimeValues == {TStr(s) : s \in TimeStrings} \cup {TNull}

InitTime ==
    /\ InitPure
    /\ pc = "time_call"
    /\ arg \in TimeValues
    /\ res = <<>>
    /\ fe_channel_list = <<>>
    /\ fe_gi = 1
    /\ fe_epg_data = <<>>
    /\ fe_requests = <<>>

CallConvert ==
    /\ pc = "time_call"
    /\ res' = convert_to_xmltv_format(arg)
    /\ pc' = "time_done"
    /\ UNCHANGED <<mainVars, feVars, arg>>

NextTime == CallConvert

SpecTime == InitTime /\ [][NextTime]_vars

----------------------------------------------------------------------------
(* The claims *)

\* C1 (as stated): main() calls fetch_channel_list at most MAX_RETRIES times for
\* a country, whatever each attempt ends in.
C1_RetryBound == attempts <= MAX_RETRIES

\* C2 (as stated): once an attempt has returned a decoded payload for a country,
\* no further proxy candidate is tried for that country.
C2_FirstSuccessWins == decoded > 0 => attempts = decoded

\* C3 (as stated): no outcome of a fetch attempt leaves main() as an uncaught
\* error; a failure to decode the payload text included.
C3_FetchFailuresRecovered == err # "fetch_channel_list"

\* C4 (as stated): the request to the proxy directory never fails the run; a
\* transport error yields an empty candidate list and the country is skipped.
C4_EgressNeverFails == err # "get_proxies"

\* C5: for each country, either no output file has been handed to persistence,
\* or the playlist handed over and the guide (handed over, or composed and about
\* to be) come from the same non-empty schedule result of the same fetch
\* attempt; a country that ended without proxies or in failure, and a country
\* still in its proxy loop, has had no file handed over.
C5_NoPartialArtifacts ==
    \A c \in CountryIds :
        /\ (files[c].m3u # <<>> \/ files[c].epg # <<>>) =>
              /\ files[c].m3u # <<>>
              /\ LET m == files[c].m3u[1]
                     g == IF files[c].epg # <<>> THEN files[c].epg[1] ELSE epg_tree[1]
                 IN  /\ m.rows # <<>>
                     /\ g.rows = m.rows
                     /\ g.attempt = m.attempt
                     /\ files[c].epg = <<>> => c = ci /\ pc = "save_epg"
        /\ outcome[c] \in {"no_proxies", "failed"} => files[c] = NoFiles
        /\ (c = ci /\ pc \in {"country", "proxy", "fetch_epg", "create_m3u",
                              "create_epg", "save_m3u", "crashed"})
              => files[c] = NoFiles

\* C5 witness: the first country has both files, the second one ended in failure
\* after a schedule fetch that returned nothing, and has none.
C5_Witness ==
    /\ pc = "done"
    /\ files[1].m3u # <<>> /\ files[1].epg # <<>>
    /\ outcome[2] = "failed" /\ channel_list # <<>> /\ epg_data = <<>>
    /\ files[2] = NoFiles

CeilGroups(L) == CHOOSE n \in 0..L : n * group_size >= L /\ (n = 0 \/ (n - 1) * group_size < L)

\* C6: fetch_epg_data issues one request per consecutive batch of at most
\* group_size identifiers, in list order, ceil(L / group_size) in all; a batch
\* that fails is skipped and the others are still requested; the result is the
\* concatenation, in batch order, of the rows of the batches that succeeded.
C6_BatchPartition ==
    pc \in {"fetch_epg", "epg_returned"} =>
        LET L == Len(fe_channel_list)
            n == Len(fe_requests)
        IN  /\ n <= CeilGroups(L)
            /\ \A k \in 1..n :
                  LET first == (k - 1) * group_size
                      size == Min(group_size, L - first)
                  IN  /\ size >= 1
                      /\ fe_requests[k].ids = [j \in 1..size |-> fe_channel_list[first + j]]
            /\ fe_epg_data =
                  Concat([k \in 1..n |->
                            IF fe_requests[k].resp \in {"rows", "nulltime", "norows"}
                            THEN fe_requests[k].rows ELSE <<>>])
            /\ pc = "epg_returned" => n = CeilGroups(L) /\ res = fe_epg_data

\* C6 witness: three batches, the second of which fails; the rows of the first
\* and of the third are returned.
C6_Witness ==
    /\ pc = "epg_returned"
    /\ Len(fe_requests) = 3
    /\ fe_requests[1].resp = "rows"
    /\ fe_requests[2].resp = "transport"
    /\ fe_requests[3].resp = "rows"
    /\ Len(fe_requests[3].ids) = 1
    /\ res = fe_requests[1].rows \o fe_requests[3].rows
    /\ res # <<>>

\* C7: the playlist holds exactly one entry per distinct non-empty cleaned URL of
\* the rows, no two entries with the same URL, and the entry of a URL is the
\* first row carrying it in the case-insensitive ascending title order, ties in
\* input order.
C7_DedupInvariant ==
    pc = "m3u_done" =>
        LET E == res.entries
            N == Len(arg)
            Before(i, j) ==
                \/ StrLess(Lower(arg[i].title), Lower(arg[j].title))
                \/ Lower(arg[i].title) = Lower(arg[j].title) /\ i < j
            FirstOfUrl(i) ==
                /\ CleanUrlOf(arg[i]) # <<>>
                /\ \A j \in (1..N) \ {i} :
                      CleanUrlOf(arg[j]) = CleanUrlOf(arg[i]) => Before(i, j)
        IN  /\ \A a, b \in 1..Len(E) : a # b => E[a].url # E[b].url
            /\ {E[a].url : a \in 1..Len(E)}
                  = {CleanUrlOf(arg[i]) : i \in 1..N} \ {<<>>}
            /\ \A a \in 1..Len(E) :
                  \E i \in 1..N : /\ FirstOfUrl(i)
                                  /\ E[a].tvg_id = arg[i].content_id
                                  /\ E[a].url = CleanUrlOf(arg[i])
                                  /\ E[a].channel_name = arg[i].title

\* C7 witness: three rows whose manifest URLs differ and clean to one URL; the
\* single entry kept is the third row, the first in title order.
C7_Witness ==
    /\ pc = "m3u_done"
    /\ Len(arg) = 3
    /\ arg[1].title = <<"b">> /\ arg[2].title = <<"B">> /\ arg[3].title = <<"a">>
    /\ arg[1].video # arg[2].video /\ arg[2].video = arg[3].video
    /\ Len(res.entries) = 1
    /\ res.entries[1].tvg_id = 3
    /\ res.entries[1].url = HTTP_H \o <<"/", "2">>

HasQueryOrFragment(url) == \E i \in 1..Len(url) : url[i] \in {"?", "#"}

\* C9 (as stated): the cleaned stream URL holds no query string and no fragment,
\* and cleaning it again returns it unchanged, for every stream URL.
C9_IdempotentCleaning ==
    pc = "url_done" =>
        /\ ~HasQueryOrFragment(res)
        /\ clean_stream_url(unquote(res)) = res

\* C9 (amended): the cleaned stream URL holds no query string and no fragment;
\* cleaning it again returns it unchanged when the decoded stream URL has a host
\* and the cleaned URL holds no percent escape that would decode once more.
C9_IdempotentWithHost ==
    pc = "url_done" =>
        /\ ~HasQueryOrFragment(res)
        /\ (urlparse(unquote(arg)).netloc # <<>> /\ unquote(res) = res)
              => clean_stream_url(unquote(res)) = res

\* C9 witness: a URL with a host, an escape and a query string has been cleaned.
C9_Witness ==
    /\ pc = "url_done"
    /\ arg = HTTP_H \o <<"/", "%", "3", "2", "?">>
    /\ res = HTTP_H \o <<"/", "2">>
    /\ clean_stream_url(unquote(res)) = res

\* the form YYYY-MM-DDTHH:MM:SSZ
IsIsoForm(s) ==
    /\ Len(s) = 20
    /\ \A i \in {1, 2, 3, 4, 6, 7, 9, 10, 12, 13, 15, 16, 18, 19} : s[i] \in Digits
    /\ s[5] = "-" /\ s[8] = "-" /\ s[11] = "T"
    /\ s[14] = ":" /\ s[17] = ":" /\ s[20] = "Z"

\* YYYYMMDDHHMMSS +0000
Rewritten(s) ==
    [i \in 1..14 |-> s[<<1, 2, 3, 4, 6, 7, 9, 10, 12, 13, 15, 16, 18, 19>>[i]]]
        \o <<" ", "+", "0", "0", "0", "0">>

\* C10 (as stated): convert_to_xmltv_format never raises; a value of the form
\* YYYY-MM-DDTHH:MM:SSZ is rewritten to YYYYMMDDHHMMSS +0000 or, where it names
\* no time, passed through; any other value is passed through unchanged.
C10_LenientConversion ==
    pc = "time_done" =>
        /\ ~res.raised
        /\ IF arg.str /\ IsIsoForm(arg.s)
           THEN res.value \in {TStr(Rewritten(arg.s)), arg}
           ELSE res.value = arg

====
